---------------------------- MODULE Spec2Model ----------------------------
(***************************************************************************)
(* A model of the CRM lead-management backend (src/main.py, src/models.py, *)
(* src/database.py): the lead store and its HTTP handlers, the scoring     *)
(* pipeline of score_lead, the response parser inside it and the email     *)
(* heuristic analyze_email_domain.                                         *)
(*                                                                         *)
(* Three specifications share the module:                                  *)
(*   Spec        the store and the handlers, one request at a time, the    *)
(*               scoring handler split at its blocking calls;              *)
(*   ParserSpec  the response parser applied to bounded response texts;    *)
(*   EmailSpec   analyze_email_domain applied to bounded (email, website). *)
(***************************************************************************)
EXTENDS Integers, Sequences, FiniteSets, TLC

VARIABLES
    leads,       \* the "leads" table: id -> row, or NoRow
    api_key,     \* os.getenv("ANTHROPIC_API_KEY") is set
    req,         \* the scoring request being handled (score_lead's locals)
    resp,        \* the response of the last request handled
    prev_clear,  \* the request handled before the last one was DELETE /clear-all
    ptext,       \* ParserSpec: the model's response text
    pout,        \* ParserSpec: the parser's result for ptext
    ein,         \* EmailSpec: the (email, website) pair
    eout         \* EmailSpec: analyze_email_domain's result for ein

vars == <<leads, api_key, req, resp, prev_clear, ptext, pout, ein, eout>>

(***************************************************************************)
(* Python's None / SQL NULL, kept apart from every value, the empty string *)
(* included: an optional value is <<>> (None) or <<v>>.                    *)
(***************************************************************************)
None == <<>>

Some(v) == <<v>>

IsNone(o) == o = <<>>

Val(o) == o[1]

(***************************************************************************)
(* Response texts are run-length encoded strings: a sequence of runs       *)
(* [c, n], n >= 1 copies of the character c, adjacent runs of different    *)
(* characters.  Characters are " ", "\n", the digit "9", the sign "-",     *)
(* the letter "a" (any other non-blank, non-digit character), and the      *)
(* three markers "SCORE:", "JUSTIFICATION:", "NEXT_ACTION:" as atoms of    *)
(* their real width, so that the slices [:400], [:500], [:300] count       *)
(* characters as Python does.                                              *)
(***************************************************************************)
Run(c, n) == [c |-> c, n |-> n]

Markers == {"SCORE:", "JUSTIFICATION:", "NEXT_ACTION:"}

Width(c) ==
    CASE c = "SCORE:" -> 6
      [] c = "JUSTIFICATION:" -> 14
      [] c = "NEXT_ACTION:" -> 12
      [] c = "Review lead and determine outreach strategy" -> 43
      [] OTHER -> 1

IsSpace(c) == c \in {" ", "\n"}

IsDigit(c) == c \in {"0", "1", "2", "3", "4", "5", "6", "7", "8", "9"}

DigitVal(c) ==
    CASE c = "0" -> 0 [] c = "1" -> 1 [] c = "2" -> 2 [] c = "3" -> 3
      [] c = "4" -> 4 [] c = "5" -> 5 [] c = "6" -> 6 [] c = "7" -> 7
      [] c = "8" -> 8 [] c = "9" -> 9

\* s + t
Cat(s, t) ==
    IF s = <<>> THEN t
    ELSE IF t = <<>> THEN s
    ELSE IF s[Len(s)].c = t[1].c
         THEN SubSeq(s, 1, Len(s) - 1)
                  \o <<Run(t[1].c, s[Len(s)].n + t[1].n)>> \o Tail(t)
         ELSE s \o t

\* len(s)
RECURSIVE StrLen(_)
StrLen(s) ==
    IF s = <<>> THEN 0 ELSE Width(Head(s).c) * Head(s).n + StrLen(Tail(s))

\* s[:k].  A marker cut by the slice leaves a fragment of letters.
RECURSIVE Slice(_, _)
Slice(s, k) ==
    IF s = <<>> \/ k <= 0 THEN <<>>
    ELSE LET r == Head(s)
             w == Width(r.c)
         IN  IF w * r.n <= k
             THEN Cat(<<r>>, Slice(Tail(s), k - w * r.n))
             ELSE Cat(IF k \div w > 0 THEN <<Run(r.c, k \div w)>> ELSE <<>>,
                      IF k % w > 0 THEN <<Run("a", k % w)>> ELSE <<>>)

RECURSIVE LStrip(_)
LStrip(s) ==
    IF s # <<>> /\ IsSpace(Head(s).c) THEN LStrip(Tail(s)) ELSE s

RECURSIVE RStrip(_)
RStrip(s) ==
    IF s # <<>> /\ IsSpace(s[Len(s)].c)
    THEN RStrip(SubSeq(s, 1, Len(s) - 1))
    ELSE s

\* s.strip()
Strip(s) == RStrip(LStrip(s))

\* s.split('\n'): cur is the line being read, out the lines read
RECURSIVE SplitAcc(_, _, _)
SplitAcc(s, cur, out) ==
    IF s = <<>> THEN Append(out, cur)
    ELSE IF Head(s).c = "\n"
         THEN SplitAcc(Tail(s), <<>>,
                       Append(out, cur) \o [i \in 1..(Head(s).n - 1) |-> <<>>])
         ELSE SplitAcc(Tail(s), Append(cur, Head(s)), out)

SplitLines(s) == SplitAcc(s, <<>>, <<>>)

\* line.startswith(m), m a marker
StartsWith(line, m) == line # <<>> /\ line[1].c = m

\* line.replace(m, ''), m a marker
RECURSIVE Remove(_, _)
Remove(s, m) ==
    IF s = <<>> THEN <<>>
    ELSE IF Head(s).c = m THEN Remove(Tail(s), m)
         ELSE Cat(<<Head(s)>>, Remove(Tail(s), m))

\* ' '.join(s.split())
RECURSIVE CollapseFrom(_)
CollapseFrom(s) ==
    IF s = <<>> THEN <<>>
    ELSE IF IsSpace(Head(s).c)
         THEN Cat(<<Run(" ", 1)>>, CollapseFrom(LStrip(s)))
         ELSE Cat(<<Head(s)>>, CollapseFrom(Tail(s)))

Collapse(s) == CollapseFrom(Strip(s))

\* re.findall(r'\d+', s): the first match, <<>> when there is none
RECURSIVE DigitPrefix(_)
DigitPrefix(s) ==
    IF s # <<>> /\ IsDigit(Head(s).c)
    THEN <<Head(s)>> \o DigitPrefix(Tail(s))
    ELSE <<>>

RECURSIVE FirstNumber(_)
FirstNumber(s) ==
    IF s = <<>> THEN <<>>
    ELSE IF IsDigit(Head(s).c) THEN DigitPrefix(s)
         ELSE FirstNumber(Tail(s))

\* int(ds), ds a string of digits, v the value of the digits read
RECURSIVE IntAcc(_, _)
IntAcc(ds, v) ==
    IF ds = <<>> THEN v
    ELSE LET r == Head(ds)
         IN  IntAcc(IF r.n = 1 THEN Tail(ds)
                               ELSE <<Run(r.c, r.n - 1)>> \o Tail(ds),
                    10 * v + DigitVal(r.c))

IntOf(ds) == IntAcc(ds, 0)


(***************************************************************************)
(* The response parser: score_lead, lines 451-485.                         *)
(***************************************************************************)
FallbackCap == 400

JustificationCap == 500

NextActionCap == 300

DefaultScore == 50

FallbackNextAction == <<Run("Review lead and determine outreach strategy", 1)>>

Space == <<Run(" ", 1)>>

\* justification += " " + next_line.strip(), for the lines from j on, until
\* one starts with NEXT_ACTION: (lines 466-469)
RECURSIVE AbsorbJustification(_, _, _)
AbsorbJustification(acc, lines, j) ==
    IF j > Len(lines) THEN acc
    ELSE IF StartsWith(lines[j], "NEXT_ACTION:") THEN acc
         ELSE AbsorbJustification(Cat(Cat(acc, Space), Strip(lines[j])),
                                  lines, j + 1)

\* AbsorbNextAction that stops at the end of the NEXT_ACTION: line
AbsorbNextActionOneLine(acc, lines, j) == acc

\* next_action += " " + next_line.strip(), for every line from j on
\* (lines 472-473)
RECURSIVE AbsorbNextAction(_, _, _)
AbsorbNextAction(acc, lines, j) ==
    IF j > Len(lines) THEN acc
    ELSE AbsorbNextAction(Cat(Cat(acc, Space), Strip(lines[j])), lines, j + 1)

\* the body of "for i, line in enumerate(lines)" for one i (lines 458-473);
\* st holds score, justification, next_action
ParseLine(st, lines, i) ==
    LET line == lines[i]
    IN  IF StartsWith(line, "SCORE:")
        THEN LET score_text == Strip(Remove(line, "SCORE:"))
                 numbers    == FirstNumber(score_text)
             IN  IF numbers # <<>>
                 THEN [st EXCEPT !.score = Some(IntOf(numbers))]
                 ELSE st
        ELSE IF StartsWith(line, "JUSTIFICATION:")
        THEN [st EXCEPT !.justification =
                 AbsorbJustification(Strip(Remove(line, "JUSTIFICATION:")),
                                     lines, i + 1)]
        ELSE IF StartsWith(line, "NEXT_ACTION:")
        THEN [st EXCEPT !.next_action =
                 AbsorbNextAction(Strip(Remove(line, "NEXT_ACTION:")),
                                  lines, i + 1)]
        ELSE st

RECURSIVE ParseLoop(_, _, _)
ParseLoop(st, lines, i) ==
    IF i > Len(lines) THEN st
    ELSE ParseLoop(ParseLine(st, lines, i), lines, i + 1)

\* score = max(0, min(100, score)) (line 483)
MinOf(a, b) == IF a < b THEN a ELSE b

MaxOf(a, b) == IF a > b THEN a ELSE b

\* Clamp without the upper bound
ClampNoUpper(score) == MaxOf(0, score)

Clamp(score) == MaxOf(0, MinOf(100, score))

\* justification = ' '.join(justification.split())[:500] (line 484)
CapJustification(justification) ==
    Slice(Collapse(justification), JustificationCap)

\* next_action = ' '.join(next_action.split())[:300] (line 485)
CapNextAction(next_action) == Slice(Collapse(next_action), NextActionCap)

\* Fallback with the justification cut at the cap of line 484
FallbackLongCap(st, response_text) ==
    [score         |-> IF IsNone(st.score) THEN DefaultScore ELSE Val(st.score),
     justification |-> IF st.justification = <<>>
                       THEN Slice(response_text, JustificationCap)
                       ELSE st.justification,
     next_action   |-> IF st.next_action = <<>>
                       THEN FallbackNextAction
                       ELSE st.next_action]

\* the fallbacks (lines 476-481)
Fallback(st, response_text) ==
    [score         |-> IF IsNone(st.score) THEN DefaultScore ELSE Val(st.score),
     justification |-> IF st.justification = <<>>
                       THEN Slice(response_text, FallbackCap)
                       ELSE st.justification,
     next_action   |-> IF st.next_action = <<>>
                       THEN FallbackNextAction
                       ELSE st.next_action]

\* lines 452-485: the (score, justification, next_action) of a response text
ParseResponse(response_text) ==
    LET lines == SplitLines(Strip(response_text))
        st0   == [score |-> None, justification |-> <<>>, next_action |-> <<>>]
        st    == Fallback(ParseLoop(st0, lines, 1), response_text)
    IN  [score         |-> Clamp(st.score),
         justification |-> CapJustification(st.justification),
         next_action   |-> CapNextAction(st.next_action)]

(***************************************************************************)
(* Lead fields, e-mail addresses and URLs are strings of tokens: a         *)
(* sequence of atoms such as "user", "@", "acme.com", "https://".  No      *)
(* token is a substring of another, so that find, replace, split and `in`  *)
(* on tokens agree with Python's on characters.                            *)
(***************************************************************************)
\* c.lower()
LowerTok(c) ==
    CASE c = "ACME.COM" -> "acme.com"
      [] c = "User" -> "user"
      [] c = "York" -> "york"
      [] c = "New" -> "new"
      [] c = "Consulting" -> "consulting"
      [] c = "Retail" -> "retail"
      [] c = "Acme" -> "acme"
      [] c = "Shop" -> "shop"
      [] OTHER -> c

\* s.lower()
Lower(s) == [i \in 1..Len(s) |-> LowerTok(s[i])]

\* s.startswith(t)
HasPrefix(s, t) == Len(t) <= Len(s) /\ SubSeq(s, 1, Len(t)) = t

\* t in s
Contains(s, t) ==
    \E i \in 0..(Len(s) - Len(t)) : SubSeq(s, i + 1, i + Len(t)) = t

\* s.replace(<<c>>, '')
RECURSIVE Without(_, _)
Without(s, c) ==
    IF s = <<>> THEN <<>>
    ELSE IF Head(s) = c THEN Without(Tail(s), c)
         ELSE <<Head(s)>> \o Without(Tail(s), c)

\* s.split(c)
RECURSIVE SplitTokAcc(_, _, _, _)
SplitTokAcc(s, c, cur, out) ==
    IF s = <<>> THEN Append(out, cur)
    ELSE IF Head(s) = c THEN SplitTokAcc(Tail(s), c, <<>>, Append(out, cur))
         ELSE SplitTokAcc(Tail(s), c, Append(cur, Head(s)), out)

SplitTok(s, c) == SplitTokAcc(s, c, <<>>, <<>>)

(***************************************************************************)
(* analyze_email_domain (lines 126-148).  Python's exceptions are values:  *)
(* the body of the try block yields [raised, value], the except clause     *)
(* turns a raise into "Invalid email format".                              *)
(***************************************************************************)
generic_domains ==
    {<<"gmail.com">>, <<"yahoo.com">>, <<"hotmail.com">>, <<"outlook.com">>,
     <<"aol.com">>}

Msg(text, domain) == [text |-> text, domain |-> domain]

\* AnalyzeEmailTry without the lower() of line 132
AnalyzeEmailTryNoLower(email, website) ==
    LET parts == SplitTok(email, "@")
    IN  IF Len(parts) < 2
        THEN [raised |-> TRUE]
        ELSE LET email_domain == parts[2]
             IN  IF email_domain \in generic_domains
                 THEN [raised |-> FALSE,
                       value  |-> Msg("Generic email domain - less professional",
                                      Some(email_domain))]
                 ELSE IF website # <<>> /\ website # <<"nan">>
                 THEN LET website_clean ==
                              Lower(SplitTok(Without(Without(Without(website,
                                  "http://"), "https://"), "www."), "/")[1])
                      IN  IF Contains(website_clean, email_domain)
                             \/ Contains(email_domain, website_clean)
                          THEN [raised |-> FALSE,
                                value  |-> Msg("Professional email - domain matches website",
                                               Some(email_domain))]
                          ELSE [raised |-> FALSE,
                                value  |-> Msg("Email domain doesn't match website",
                                               Some(email_domain))]
                 ELSE [raised |-> FALSE,
                       value  |-> Msg("Professional email domain",
                                      Some(email_domain))]

\* lines 132-145, the try block
AnalyzeEmailTry(email, website) ==
    LET parts == SplitTok(email, "@")
    IN  IF Len(parts) < 2
        THEN [raised |-> TRUE]                      \* IndexError, line 132
        ELSE LET email_domain == Lower(parts[2])
             IN  IF email_domain \in generic_domains
                 THEN [raised |-> FALSE,
                       value  |-> Msg("Generic email domain - less professional",
                                      Some(email_domain))]
                 ELSE IF website # <<>> /\ website # <<"nan">>
                 THEN LET website_clean ==
                              Lower(SplitTok(Without(Without(Without(website,
                                  "http://"), "https://"), "www."), "/")[1])
                      IN  IF Contains(website_clean, email_domain)
                             \/ Contains(email_domain, website_clean)
                          THEN [raised |-> FALSE,
                                value  |-> Msg("Professional email - domain matches website",
                                               Some(email_domain))]
                          ELSE [raised |-> FALSE,
                                value  |-> Msg("Email domain doesn't match website",
                                               Some(email_domain))]
                 ELSE [raised |-> FALSE,
                       value  |-> Msg("Professional email domain",
                                      Some(email_domain))]

\* lines 126-148: the result, or the raise that leaves the function
analyze_email_domain(email, website) ==
    IF email = <<>> \/ email = <<"nan">>
    THEN [raised |-> FALSE, value |-> Msg("No email provided", None)]
    ELSE LET r == AnalyzeEmailTry(email, website)
         IN  IF r.raised
             THEN [raised |-> FALSE, value |-> Msg("Invalid email format", None)]
             ELSE r

(***************************************************************************)
(* The lead store: models.py, database.py.                                 *)
(***************************************************************************)
MaxId == 2

MaxRows == 2

\* the ids queried by the requests: the stored ones and one that never is
QueryIds == 1..(MaxId + 1)


\* the rows of an uploaded CSV file: the columns upload_csv reads, a blank
\* cell as pandas reads it ("nan" once passed through str)
CsvRows ==
    {[company_name |-> <<"Acme">>, location |-> <<"New", " ", "York">>,
      industry |-> <<"Consulting">>, website |-> <<"acme.com">>,
      contact_email |-> <<"user", "@", "acme.com">>, notes |-> <<"nan">>],
     [company_name |-> <<"nan">>, location |-> <<"nan">>,
      industry |-> <<"nan">>, website |-> <<"nan">>,
      contact_email |-> <<"nan">>, notes |-> <<"nan">>],
     [company_name |-> <<"Shop">>, location |-> <<"York">>,
      industry |-> <<"Retail">>, website |-> <<"https://", "www.", "shop.org">>,
      contact_email |-> <<"user", "@", "gmail.com">>, notes |-> <<"note">>]}

\* the uploaded files: one whose name does not end in ".csv", one that
\* pandas cannot read, and the readable ones of at most MaxRows rows
CsvFiles ==
    {[csv_name |-> FALSE, readable |-> TRUE, rows |-> <<>>],
     [csv_name |-> TRUE, readable |-> FALSE, rows |-> <<>>]}
    \cup {[csv_name |-> TRUE, readable |-> TRUE, rows |-> rs] :
              rs \in UNION {[1..k -> CsvRows] : k \in 0..MaxRows}}

\* clean_value (lines 203-205)
clean_value(val) == IF val = <<"nan">> THEN <<>> ELSE val

\* c.title()
TitleTok(c) == CASE c = "user" -> "User" [] OTHER -> c

\* email.split('@')[0].replace('.', ' ').title() (lines 197-200)
ContactName(email) ==
    IF email # <<>> /\ Contains(email, <<"@">>) /\ email # <<"nan">>
    THEN LET local == SplitTok(email, "@")[1]
         IN  [i \in 1..Len(local) |->
                 IF local[i] = "." THEN " " ELSE TitleTok(local[i])]
    ELSE <<>>

\* NewLead with a score of 0 for a lead not scored yet
NewLeadScoredZero(row) ==
    [company_name     |-> clean_value(row.company_name),
     industry         |-> clean_value(row.industry),
     location         |-> clean_value(row.location),
     contact_name     |-> ContactName(row.contact_email),
     contact_email    |-> clean_value(row.contact_email),
     contact_phone    |-> <<>>,
     revenue          |-> <<>>,
     employees        |-> <<>>,
     website          |-> clean_value(row.website),
     notes            |-> clean_value(row.notes),
     ai_score         |-> Some(0),
     ai_justification |-> None,
     ai_next_action   |-> None]

\* Lead(...) (lines 207-218); the ai_* columns are left to their default
NewLead(row) ==
    [company_name     |-> clean_value(row.company_name),
     industry         |-> clean_value(row.industry),
     location         |-> clean_value(row.location),
     contact_name     |-> ContactName(row.contact_email),
     contact_email    |-> clean_value(row.contact_email),
     contact_phone    |-> <<>>,
     revenue          |-> <<>>,
     employees        |-> <<>>,
     website          |-> clean_value(row.website),
     notes            |-> clean_value(row.notes),
     ai_score         |-> None,
     ai_justification |-> None,
     ai_next_action   |-> None]

\* the id SQLite gives a new row of an INTEGER PRIMARY KEY table: one more
\* than the largest id in the table
MaxOfSet(S) ==
    IF S = {} THEN 0
    ELSE LET x == CHOOSE y \in S : \A z \in S : z <= y IN x

NextRowId(table) == MaxOfSet(DOMAIN table) + 1

\* db.add(lead) for every row, in order
RECURSIVE AddRows(_, _)
AddRows(table, rows) ==
    IF rows = <<>> THEN table
    ELSE LET id == NextRowId(table)
         IN  AddRows([i \in DOMAIN table \cup {id} |->
                         IF i = id THEN NewLead(Head(rows)) ELSE table[i]],
                     Tail(rows))

EmptyTable == <<>>

DeleteRow(table, id) == [i \in DOMAIN table \ {id} |-> table[i]]

AiColumns == {"ai_score", "ai_justification", "ai_next_action"}

\* the flush of db.commit() after attributes of the loaded object `loaded`
\* (the row of id `id` as the session read it) were set to `new`: an UPDATE
\* of the columns whose value differs from the loaded one, on the row of
\* that id; no such row is StaleDataError
Flush(table, id, loaded, new) ==
    LET changed == {c \in AiColumns : new[c] # loaded[c]}
    IN  IF changed = {} THEN [raised |-> FALSE, table |-> table]
        ELSE IF id \notin DOMAIN table THEN [raised |-> TRUE, table |-> table]
        ELSE [raised |-> FALSE,
              table  |-> [table EXCEPT ![id] =
                             [c \in DOMAIN table[id] |->
                                 IF c \in changed THEN new[c] ELSE table[id][c]]]]

(***************************************************************************)
(* fetch_website_content (lines 66-123).  The network and the page are the *)
(* environment: net is what requests.get and the parse of the page give.   *)
(***************************************************************************)
NetOutcomes == {"rich", "thin", "down"}

\* lines 72-74
NormalizeUrl(url) ==
    IF HasPrefix(url, <<"http://">>) \/ HasPrefix(url, <<"https://">>)
    THEN url
    ELSE <<"https://">> \o url

\* FetchTry without its except clause: the exception leaves the function
FetchTryUncaught(url, net) ==
    IF net = "down"
    THEN [raised |-> TRUE, value |-> None]
    ELSE [raised |-> FALSE,
          value  |-> Some([has_content  |-> net = "rich",
                           url_analyzed |-> NormalizeUrl(url)])]

\* lines 71-123: the try block and its except clause.  "down" is any
\* exception of lines 80-120 (connection error, timeout, non-2xx status,
\* invalid URL, parse error)
FetchTry(url, net) ==
    IF net = "down"
    THEN [raised |-> FALSE,
          value  |-> Some([error        |-> "Could not fetch website",
                           url_analyzed |-> NormalizeUrl(url)])]
    ELSE [raised |-> FALSE,
          value  |-> Some([has_content  |-> net = "rich",
                           url_analyzed |-> NormalizeUrl(url)])]

\* lines 66-123: None, the summary, or the failure shape
fetch_website_content(url, net) ==
    IF url = <<>> \/ url = <<"nan">>
    THEN [raised |-> FALSE, value |-> None]
    ELSE FetchTry(url, net)

\* 'error' in website_analysis
HasError(website_analysis) == "error" \in DOMAIN website_analysis

\* lines 348-436: the parts of the prompt that vary
BuildPrompt(lead, email_analysis, website_analysis) ==
    [company        |-> lead.company_name,
     industry       |-> lead.industry,
     location       |-> lead.location,
     contact        |-> lead.contact_name,
     email          |-> lead.contact_email,
     website        |-> lead.website,
     email_analysis |-> email_analysis,
     website_section |->
         IF ~IsNone(website_analysis) /\ ~HasError(Val(website_analysis))
         THEN [heading |-> "Website Successfully Analyzed",
               url     |-> Val(website_analysis).url_analyzed,
               status  |-> IF Val(website_analysis).has_content
                           THEN "professional" ELSE "limited"]
         ELSE IF ~IsNone(website_analysis) /\ HasError(Val(website_analysis))
         THEN [heading |-> "Website Analysis FAILED",
               error   |-> Val(website_analysis).error]
         ELSE [heading |-> "NO WEBSITE PROVIDED"]]

\* line 501
WebsiteAnalyzed(website_analysis) ==
    ~IsNone(website_analysis) /\ ~HasError(Val(website_analysis))

(***************************************************************************)
(* The responses of the model that the scoring requests of Spec draw from: *)
(* a well-formed one with a number above 100, a signed number with nothing *)
(* else, a SCORE line without digits, and a text without markers.          *)
(***************************************************************************)
ModelReplies ==
    {<<Run("SCORE:", 1), Run(" ", 1), Run("9", 3), Run("\n", 1),
       Run("JUSTIFICATION:", 1), Run(" ", 1), Run("a", 2), Run("\n", 1),
       Run("NEXT_ACTION:", 1), Run(" ", 1), Run("a", 1)>>,
     <<Run("SCORE:", 1), Run(" ", 1), Run("-", 1), Run("9", 1)>>,
     <<Run("SCORE:", 1), Run(" ", 1), Run("a", 1)>>,
     <<Run("a", 3)>>}

(***************************************************************************)
(* The requests.  Spec handles one request at a time; score_lead is split  *)
(* at its blocking calls, and req holds its locals between them.           *)
(***************************************************************************)
Idle == [pc |-> "idle"]

NoResp == [op |-> "none", status |-> 0]

main_unchanged == UNCHANGED <<api_key, ptext, pout, ein, eout>>

\* a request is handled to its end: resp is its response
Respond(r) ==
    /\ resp' = r
    /\ prev_clear' = (resp.op = "clear_all")

\* GET / (lines 151-153)
read_root ==
    /\ req.pc = "idle"
    /\ Respond([op |-> "root", status |-> 200,
                message |-> "CRM API is running"])
    /\ UNCHANGED <<leads, req>>
    /\ main_unchanged

\* POST /upload (lines 156-236)
upload_csv(file) ==
    /\ req.pc = "idle"
    /\ MaxOfSet(DOMAIN leads) + Len(file.rows) <= MaxId
    /\ IF ~file.csv_name
       THEN /\ Respond([op |-> "upload", status |-> 400,
                        detail |-> "File must be a CSV"])
            /\ UNCHANGED leads
       ELSE IF ~file.readable
       THEN /\ Respond([op |-> "upload", status |-> 500,
                        detail |-> "Error processing CSV"])
            /\ UNCHANGED leads
       ELSE /\ leads' = AddRows(leads, file.rows)
            /\ Respond([op |-> "upload", status |-> 200,
                        leads_added |-> Len(file.rows)])
    /\ UNCHANGED req
    /\ main_unchanged

\* the filters of get_leads (lines 249-254); a parameter is None or <<v>>
Truthy(param, empty) == ~IsNone(param) /\ Val(param) # empty

MatchesFilters(lead, industry, location, min_score) ==
    /\ Truthy(industry, <<>>) => lead.industry = Val(industry)
    /\ Truthy(location, <<>>) =>
           Contains(Lower(lead.location), Lower(Val(location)))
    /\ Truthy(min_score, 0) =>
           (~IsNone(lead.ai_score) /\ Val(lead.ai_score) >= Val(min_score))

IndustryParams == {None, Some(<<"Consulting">>)}

LocationParams == {None, Some(<<"york">>)}

MinScoreParams == {None, Some(-1), Some(0), Some(10), Some(100)}

\* GET /leads (lines 239-257)
get_leads(industry, location, min_score) ==
    /\ req.pc = "idle"
    /\ Respond([op |-> "get_leads", status |-> 200,
                industry |-> industry, location |-> location,
                min_score |-> min_score,
                ids |-> {i \in DOMAIN leads :
                            MatchesFilters(leads[i], industry, location,
                                           min_score)}])
    /\ UNCHANGED <<leads, req>>
    /\ main_unchanged

\* GET /leads/{lead_id} (lines 260-268)
get_lead(lead_id) ==
    /\ req.pc = "idle"
    /\ IF lead_id \notin DOMAIN leads
       THEN Respond([op |-> "get_lead", status |-> 404, lead_id |-> lead_id,
                     detail |-> "Lead not found"])
       ELSE Respond([op |-> "get_lead", status |-> 200, lead_id |-> lead_id,
                     lead |-> leads[lead_id]])
    /\ UNCHANGED <<leads, req>>
    /\ main_unchanged

\* DELETE /leads/{lead_id} (lines 271-282)
delete_lead(lead_id) ==
    /\ req.pc = "idle"
    /\ IF lead_id \notin DOMAIN leads
       THEN /\ Respond([op |-> "delete_lead", status |-> 404,
                        lead_id |-> lead_id, detail |-> "Lead not found"])
            /\ UNCHANGED leads
       ELSE /\ leads' = DeleteRow(leads, lead_id)
            /\ Respond([op |-> "delete_lead", status |-> 200,
                        lead_id |-> lead_id,
                        message |-> "Lead deleted successfully"])
    /\ UNCHANGED req
    /\ main_unchanged

\* GET /filters (lines 285-294)
get_filter_options ==
    /\ req.pc = "idle"
    /\ Respond([op |-> "filters", status |-> 200,
                industries |-> {leads[i].industry : i \in DOMAIN leads} \ {<<>>},
                locations  |-> {leads[i].location : i \in DOMAIN leads} \ {<<>>}])
    /\ UNCHANGED <<leads, req>>
    /\ main_unchanged

\* clear_all_leads with the rows counted after they are deleted
clear_all_count_after ==
    /\ req.pc = "idle"
    /\ leads' = EmptyTable
    /\ Respond([op |-> "clear_all", status |-> 200,
                leads_deleted |-> Cardinality(DOMAIN leads')])
    /\ UNCHANGED req
    /\ UNCHANGED <<api_key, ptext, pout, ein, eout>>

\* DELETE /clear-all (lines 297-307)
clear_all_leads ==
    /\ req.pc = "idle"
    /\ LET count == Cardinality(DOMAIN leads)
       IN  /\ leads' = EmptyTable
           /\ Respond([op |-> "clear_all", status |-> 200,
                       leads_deleted |-> count])
    /\ UNCHANGED req
    /\ main_unchanged

(***************************************************************************)
(* POST /leads/{lead_id}/score (lines 310-508).                            *)
(* req.fetches and req.model_calls count the calls of requests.get and of  *)
(* client.messages.create the request has made; a response of the handler  *)
(* records them, with what the fetch gave and the text the model          *)
(* returned, beside the fields of its body.                                *)
(***************************************************************************)
FetchShape(website_analysis) ==
    IF IsNone(website_analysis) THEN "absent"
    ELSE IF HasError(Val(website_analysis)) THEN "failed"
    ELSE "summary"

\* lines 504-508: the except clause; the session is closed with nothing
\* committed by get_db (lines 42-43)
ScoreFailed(stage, fetches, model_calls, website_analysis) ==
    /\ req' = Idle
    /\ resp' = [op |-> "score", status |-> 500, lead_id |-> req.lead_id,
                detail |-> "Error scoring lead", stage |-> stage,
                fetches |-> fetches, model_calls |-> model_calls,
                fetch |-> FetchShape(website_analysis)]
    /\ UNCHANGED prev_clear

\* ScoreBegin without the check of the key
ScoreBeginNoKeyCheck(lead_id) ==
    /\ req.pc = "idle"
    /\ IF lead_id \notin DOMAIN leads
       THEN /\ Respond([op |-> "score", status |-> 404, lead_id |-> lead_id,
                        detail |-> "Lead not found",
                        fetches |-> 0, model_calls |-> 0])
            /\ UNCHANGED req
       ELSE /\ req' = [pc |-> "fetch", lead_id |-> lead_id,
                       lead |-> leads[lead_id], website_analysis |-> None,
                       prompt |-> None, response_text |-> None,
                       fetches |-> 0, model_calls |-> 0]
            /\ resp' = NoResp
            /\ prev_clear' = (resp.op = "clear_all")
    /\ UNCHANGED leads
    /\ UNCHANGED <<api_key, ptext, pout, ein, eout>>

\* lines 316-322: the lead is read, the key is checked
ScoreBegin(lead_id) ==
    /\ req.pc = "idle"
    /\ IF lead_id \notin DOMAIN leads
       THEN /\ Respond([op |-> "score", status |-> 404, lead_id |-> lead_id,
                        detail |-> "Lead not found",
                        fetches |-> 0, model_calls |-> 0])
            /\ UNCHANGED req
       ELSE IF ~api_key
       THEN /\ Respond([op |-> "score", status |-> 500, lead_id |-> lead_id,
                        detail |-> "ANTHROPIC_API_KEY not configured",
                        fetches |-> 0, model_calls |-> 0])
            /\ UNCHANGED req
       ELSE /\ req' = [pc |-> "fetch", lead_id |-> lead_id,
                       lead |-> leads[lead_id], website_analysis |-> None,
                       prompt |-> None, response_text |-> None,
                       fetches |-> 0, model_calls |-> 0]
            /\ resp' = NoResp
            /\ prev_clear' = (resp.op = "clear_all")
    /\ UNCHANGED leads
    /\ main_unchanged

\* lines 329-436: the website is fetched, the email analysed, the prompt built
ScoreFetch(net) ==
    /\ req.pc = "fetch"
    /\ LET fetched  == fetch_website_content(req.lead.website, net)
           analysed == analyze_email_domain(req.lead.contact_email,
                                            req.lead.website)
           called   == IF req.lead.website = <<>> \/ req.lead.website = <<"nan">>
                       THEN 0 ELSE 1
       IN  IF fetched.raised
           THEN ScoreFailed("fetch", req.fetches + called, req.model_calls, None)
           ELSE IF analysed.raised
           THEN ScoreFailed("analyze", req.fetches + called, req.model_calls,
                            fetched.value)
           ELSE /\ req' = [req EXCEPT
                             !.pc = "model_call",
                             !.website_analysis = fetched.value,
                             !.prompt = Some(BuildPrompt(req.lead, analysed.value,
                                                         fetched.value)),
                             !.fetches = req.fetches + called]
                /\ UNCHANGED <<resp, prev_clear>>
    /\ UNCHANGED leads
    /\ main_unchanged

\* what client.messages.create and message.content[0].text give: an
\* exception, or the text of the response
ModelOutcomes == {None} \cup {Some(t) : t \in ModelReplies}

\* lines 438-449: the model is called once
ScoreModelCall(outcome) ==
    /\ req.pc = "model_call"
    /\ IF IsNone(outcome)
       THEN ScoreFailed("model_call", req.fetches, req.model_calls + 1,
                        req.website_analysis)
       ELSE /\ req' = [req EXCEPT !.pc = "write",
                                  !.response_text = outcome,
                                  !.model_calls = req.model_calls + 1]
            /\ UNCHANGED <<resp, prev_clear>>
    /\ UNCHANGED leads
    /\ main_unchanged

\* Commit as it would be were each attribute written through as it is set:
\* a refused commit leaves the score behind
CommitWriteThrough(table, id, loaded, new, db_ok) ==
    IF ~db_ok
    THEN [raised |-> TRUE,
          table  |-> IF id \in DOMAIN table
                     THEN [table EXCEPT ![id].ai_score = new.ai_score]
                     ELSE table]
    ELSE Flush(table, id, loaded, new)

\* lines 488-491: the three attributes are set and the session committed;
\* db_ok = FALSE is a commit the database refuses (OperationalError).  The
\* table is as the transaction leaves it: unchanged when it raises, for
\* the session is closed without a commit
Commit(table, id, loaded, new, db_ok) ==
    IF ~db_ok THEN [raised |-> TRUE, table |-> table]
    ELSE Flush(table, id, loaded, new)

\* lines 451-502: the response is parsed, the lead updated, the result returned
ScoreWrite(db_ok) ==
    /\ req.pc = "write"
    /\ LET parsed == ParseResponse(Val(req.response_text))
           new    == [ai_score         |-> Some(parsed.score),
                      ai_justification |-> Some(parsed.justification),
                      ai_next_action   |-> Some(parsed.next_action)]
           done   == Commit(leads, req.lead_id, req.lead, new, db_ok)
       IN  /\ leads' = done.table
           /\ IF done.raised
              THEN ScoreFailed("commit", req.fetches, req.model_calls,
                               req.website_analysis)
              ELSE /\ req' = Idle
                   /\ resp' = [op |-> "score", status |-> 200,
                               lead_id |-> req.lead_id,
                               score |-> parsed.score,
                               justification |-> parsed.justification,
                               next_action |-> parsed.next_action,
                               website_analyzed |->
                                   WebsiteAnalyzed(req.website_analysis),
                               fetches |-> req.fetches,
                               model_calls |-> req.model_calls,
                               fetch |-> FetchShape(req.website_analysis),
                               response_text |-> Val(req.response_text)]
                   /\ UNCHANGED prev_clear
    /\ main_unchanged

(***************************************************************************)
(* Spec: the store and its handlers.                                       *)
(***************************************************************************)
ParserOff == ptext = <<>> /\ pout = None

EmailOff == ein = <<>> /\ eout = None

Init ==
    /\ leads = EmptyTable
    /\ api_key \in BOOLEAN
    /\ req = Idle
    /\ resp = NoResp
    /\ prev_clear = FALSE
    /\ ParserOff
    /\ EmailOff

Next ==
    \/ read_root
    \/ \E file \in CsvFiles : upload_csv(file)
    \/ \E industry \in IndustryParams, location \in LocationParams,
          min_score \in MinScoreParams :
              get_leads(industry, location, min_score)
    \/ \E lead_id \in QueryIds : get_lead(lead_id)
    \/ \E lead_id \in QueryIds : delete_lead(lead_id)
    \/ get_filter_options
    \/ clear_all_leads
    \/ \E lead_id \in QueryIds : ScoreBegin(lead_id)
    \/ \E net \in NetOutcomes : ScoreFetch(net)
    \/ \E outcome \in ModelOutcomes : ScoreModelCall(outcome)
    \/ \E db_ok \in BOOLEAN : ScoreWrite(db_ok)

Spec == Init /\ [][Next]_vars

(***************************************************************************)
(* ParserSpec: the parser of score_lead on every response text made of at  *)
(* most MaxPieces pieces.  A piece is a marker, a blank, a line break, a   *)
(* letter, a digit, or a word of LongWord letters (long enough for two of  *)
(* them to pass each cap).                                                 *)
(***************************************************************************)
MaxPieces == 5

LongWord == 350

Pieces ==
    {<<Run("SCORE:", 1)>>, <<Run("JUSTIFICATION:", 1)>>,
     <<Run("NEXT_ACTION:", 1)>>, <<Run(" ", 1)>>, <<Run("\n", 1)>>,
     <<Run("a", 1)>>, <<Run("a", LongWord)>>, <<Run("9", 1)>>}

RECURSIVE JoinPieces(_)
JoinPieces(ps) ==
    IF ps = <<>> THEN <<>> ELSE Cat(Head(ps), JoinPieces(Tail(ps)))

ResponseTexts ==
    {JoinPieces(ps) : ps \in UNION {[1..k -> Pieces] : k \in 0..MaxPieces}}

MainOff ==
    /\ leads = EmptyTable
    /\ api_key = FALSE
    /\ req = Idle
    /\ resp = NoResp
    /\ prev_clear = FALSE

ParserInit ==
    /\ ptext \in ResponseTexts
    /\ pout = None
    /\ MainOff
    /\ EmailOff

\* lines 451-485 applied to response_text = ptext
Parse ==
    /\ IsNone(pout)
    /\ pout' = Some(ParseResponse(ptext))
    /\ UNCHANGED <<leads, api_key, req, resp, prev_clear, ptext, ein, eout>>

ParserNext == Parse

ParserSpec == ParserInit /\ [][ParserNext]_vars

(***************************************************************************)
(* EmailSpec: analyze_email_domain on (email, website) pairs put together  *)
(* from a local part, an "@", a domain and a tail, and from a scheme, a    *)
(* "www.", a host and a path, each of them possibly missing.               *)
(***************************************************************************)
Emails ==
    {a \o b \o c \o d :
        a \in {<<>>, <<"user">>, <<"nan">>},
        b \in {<<>>, <<"@">>},
        c \in {<<>>, <<"gmail.com">>, <<"acme.com">>, <<"ACME.COM">>,
               <<"app.", "acme.com">>, <<"aol.com">>},
        d \in {<<>>, <<"@", "acme.com">>}}

Websites ==
    {a \o b \o c \o d :
        a \in {<<>>, <<"http://">>, <<"https://">>},
        b \in {<<>>, <<"www.">>},
        c \in {<<>>, <<"nan">>, <<"acme.com">>, <<"ACME.COM">>,
               <<"app.", "acme.com">>, <<"shop.org">>},
        d \in {<<>>, <<"/">>, <<"/", "acme.com">>}}

EmailInit ==
    /\ ein \in {<<e, w>> : e \in Emails, w \in Websites}
    /\ eout = None
    /\ MainOff
    /\ ParserOff

\* lines 126-148 applied to (email, website) = ein
Analyze ==
    /\ IsNone(eout)
    /\ eout' = Some(analyze_email_domain(ein[1], ein[2]))
    /\ UNCHANGED <<leads, api_key, req, resp, prev_clear, ptext, pout, ein>>

EmailNext == Analyze

EmailSpec == EmailInit /\ [][EmailNext]_vars

(***************************************************************************)
(* RequestsSpec: scoring requests handled at the same time.  score_lead is *)
(* a coroutine without an await, so one process runs it to its end before  *)
(* it takes the next request (that is Spec); requests overlap when the     *)
(* application is served by several worker processes on the one leads.db.  *)
(* Each request has its own session (get_db, lines 38-43): the lead object *)
(* it loaded at line 316 is not refreshed until its own commit.  Here req  *)
(* maps each of MaxRequests requests to its locals, from before it arrives *)
(* ("idle") to after its response ("done"), and resp is the response       *)
(* delivered last.  SQLite lets one writer in at a time, so a commit is    *)
(* one step; a writer kept waiting too long is a refused commit.           *)
(***************************************************************************)
MaxRequests == 3

Requests == 1..MaxRequests

Done == [pc |-> "done"]

\* the table after the upload of a file of two rows, one with a website and
\* one of blank cells
RequestsFile ==
    <<[company_name |-> <<"Acme">>, location |-> <<"New", " ", "York">>,
       industry |-> <<"Consulting">>, website |-> <<"acme.com">>,
       contact_email |-> <<"user", "@", "acme.com">>, notes |-> <<"nan">>],
      [company_name |-> <<"nan">>, location |-> <<"nan">>,
       industry |-> <<"nan">>, website |-> <<"nan">>,
       contact_email |-> <<"nan">>, notes |-> <<"nan">>]>>

RequestsInit ==
    /\ leads = AddRows(EmptyTable, RequestsFile)
    /\ api_key \in BOOLEAN
    /\ req = [r \in Requests |-> Idle]
    /\ resp = NoResp
    /\ prev_clear = FALSE
    /\ ParserOff
    /\ EmailOff

\* lines 504-508 of request r
RequestFailed(r, stage) ==
    /\ req' = [req EXCEPT ![r] = Done]
    /\ resp' = [op |-> "score", status |-> 500, request |-> r,
                lead_id |-> req[r].lead_id,
                detail |-> "Error scoring lead", stage |-> stage]

\* lines 316-322 of request r: the lead is read into the request's session
RequestBegin(r, lead_id) ==
    /\ req[r].pc = "idle"
    /\ IF lead_id \notin DOMAIN leads
       THEN /\ resp' = [op |-> "score", status |-> 404, request |-> r,
                        lead_id |-> lead_id, detail |-> "Lead not found"]
            /\ req' = [req EXCEPT ![r] = Done]
       ELSE IF ~api_key
       THEN /\ resp' = [op |-> "score", status |-> 500, request |-> r,
                        lead_id |-> lead_id,
                        detail |-> "ANTHROPIC_API_KEY not configured"]
            /\ req' = [req EXCEPT ![r] = Done]
       ELSE /\ req' = [req EXCEPT ![r] =
                          [pc |-> "fetch", lead_id |-> lead_id,
                           lead |-> leads[lead_id], website_analysis |-> None,
                           response_text |-> None]]
            /\ UNCHANGED resp
    /\ UNCHANGED <<leads, prev_clear>>
    /\ main_unchanged

\* lines 329-436 of request r
RequestFetch(r, net) ==
    /\ req[r].pc = "fetch"
    /\ LET fetched  == fetch_website_content(req[r].lead.website, net)
           analysed == analyze_email_domain(req[r].lead.contact_email,
                                            req[r].lead.website)
       IN  IF fetched.raised THEN RequestFailed(r, "fetch")
           ELSE IF analysed.raised THEN RequestFailed(r, "analyze")
           ELSE /\ req' = [req EXCEPT ![r].pc = "model_call",
                                      ![r].website_analysis = fetched.value]
                /\ UNCHANGED resp
    /\ UNCHANGED <<leads, prev_clear>>
    /\ main_unchanged

\* lines 438-449 of request r
RequestModelCall(r, outcome) ==
    /\ req[r].pc = "model_call"
    /\ IF IsNone(outcome)
       THEN RequestFailed(r, "model_call")
       ELSE /\ req' = [req EXCEPT ![r].pc = "write",
                                  ![r].response_text = outcome]
            /\ UNCHANGED resp
    /\ UNCHANGED <<leads, prev_clear>>
    /\ main_unchanged

\* lines 451-502 of request r: the attributes of the object the request
\* loaded are set, and its session flushes what changed on that object
RequestWrite(r, db_ok) ==
    /\ req[r].pc = "write"
    /\ LET parsed == ParseResponse(Val(req[r].response_text))
           new    == [ai_score         |-> Some(parsed.score),
                      ai_justification |-> Some(parsed.justification),
                      ai_next_action   |-> Some(parsed.next_action)]
           done   == Commit(leads, req[r].lead_id, req[r].lead, new, db_ok)
       IN  /\ leads' = done.table
           /\ IF done.raised
              THEN RequestFailed(r, "commit")
              ELSE /\ req' = [req EXCEPT ![r] = Done]
                   /\ resp' = [op |-> "score", status |-> 200, request |-> r,
                               lead_id |-> req[r].lead_id,
                               score |-> parsed.score,
                               justification |-> parsed.justification,
                               next_action |-> parsed.next_action,
                               website_analyzed |->
                                   WebsiteAnalyzed(req[r].website_analysis)]
    /\ UNCHANGED prev_clear
    /\ main_unchanged

RequestsNext ==
    \/ \E r \in Requests, lead_id \in QueryIds : RequestBegin(r, lead_id)
    \/ \E r \in Requests, net \in NetOutcomes : RequestFetch(r, net)
    \/ \E r \in Requests, outcome \in ModelOutcomes : RequestModelCall(r, outcome)
    \/ \E r \in Requests, db_ok \in BOOLEAN : RequestWrite(r, db_ok)

RequestsSpec == RequestsInit /\ [][RequestsNext]_vars

(***************************************************************************)
(* Properties of Spec.                                                     *)
(***************************************************************************)
Ai(lead) == <<lead.ai_score, lead.ai_justification, lead.ai_next_action>>

Unscored == <<None, None, None>>

\* a step that ends a scoring request that had passed the checks of the
\* lead and of the key
ScoreEnds == req.pc # "idle" /\ req'.pc = "idle"

\* C1: in every reachable state every stored lead's ai_score is absent or an
\* integer from 0 to 100, whatever text the model returned.
C1_ScoreInRange ==
    \A i \in DOMAIN leads :
        \/ IsNone(leads[i].ai_score)
        \/ Val(leads[i].ai_score) \in 0..100

\* C1, its case: a response whose SCORE line holds 999 was parsed and
\* stored, as 100.
C1_Witness ==
    /\ resp.op = "score" /\ resp.status = 200
    /\ IntOf(FirstNumber(resp.response_text)) > 100
    /\ resp.lead_id \in DOMAIN leads
    /\ leads[resp.lead_id].ai_score = Some(100)

\* C2: a scoring request that fails (at the model call or at the commit, the
\* stages of the pipeline that raise) leaves the table as it was, has called
\* the model at most once and is over; one that succeeds sets the three ai_*
\* fields of its lead, to the values it returns, in the one step of its
\* commit and changes nothing else; so in no state has a lead only some of
\* the three.
C2_AllOrNothing ==
    [][/\ (ScoreEnds /\ resp'.status # 200) =>
              /\ resp'.op = "score" /\ resp'.status = 500
              /\ leads' = leads
              /\ resp'.model_calls <= 1 /\ resp'.fetches <= 1
       /\ (ScoreEnds /\ resp'.status = 200) =>
              /\ resp'.op = "score"
              /\ resp'.model_calls = 1
              /\ DOMAIN leads' = DOMAIN leads
              /\ req.lead_id \in DOMAIN leads
              /\ Ai(leads'[req.lead_id]) =
                     <<Some(resp'.score), Some(resp'.justification),
                       Some(resp'.next_action)>>
              /\ \A i \in DOMAIN leads :
                     \A c \in DOMAIN leads[i] :
                         (i # req.lead_id \/ c \notin AiColumns) =>
                             leads'[i][c] = leads[i][c]
       /\ \A i \in DOMAIN leads' :
              \/ Ai(leads'[i]) = Unscored
              \/ \A c \in AiColumns : ~IsNone(leads'[i][c])
      ]_vars

\* C2, its case: the commit of a request for a lead scored before was
\* refused, and the lead still has its three fields.
C2_Witness ==
    /\ resp.op = "score" /\ resp.status = 500
    /\ "stage" \in DOMAIN resp /\ resp.stage = "commit"
    /\ resp.lead_id \in DOMAIN leads
    /\ ~IsNone(leads[resp.lead_id].ai_score)

\* C3: a website fetch that fails never fails the scoring request: the
\* summarizer returns the failure shape {error, url_analyzed}, the request
\* goes on to the model call with the failure in its prompt, it can only
\* fail at the model call or at the commit, and when it succeeds the score
\* is stored and the response says website_analyzed = false.
C3_FetchFailureIsData ==
    /\ (resp.op = "score" /\ resp.status = 500 /\ "stage" \in DOMAIN resp) =>
           /\ resp.stage \in {"model_call", "commit"}
           /\ resp.model_calls = 1
    /\ (req.pc \in {"model_call", "write"}
            /\ req.lead.website # <<>> /\ req.fetches = 1) =>
           /\ ~IsNone(req.website_analysis)
           /\ HasError(Val(req.website_analysis)) =>
                  /\ DOMAIN Val(req.website_analysis) = {"error", "url_analyzed"}
                  /\ Val(req.prompt).website_section.heading =
                         "Website Analysis FAILED"
    /\ (resp.op = "score" /\ resp.status = 200 /\ resp.fetch = "failed") =>
           /\ resp.website_analyzed = FALSE
           /\ resp.lead_id \in DOMAIN leads
           /\ leads[resp.lead_id].ai_score = Some(resp.score)

\* C3, its case: a request whose fetch failed succeeded.
C3_Witness ==
    /\ resp.op = "score" /\ resp.status = 200
    /\ resp.fetch = "failed" /\ resp.fetches = 1
    /\ ~resp.website_analyzed
    /\ leads[resp.lead_id].ai_score = Some(resp.score)

\* C4: for every integer min_score given to GET /leads with no other
\* filter, the leads returned are exactly the stored leads that have an
\* ai_score and whose ai_score >= min_score.
C4_MinScoreExact ==
    (/\ resp.op = "get_leads"
     /\ IsNone(resp.industry) /\ IsNone(resp.location)
     /\ ~IsNone(resp.min_score)) =>
        resp.ids = {i \in DOMAIN leads :
                       /\ ~IsNone(leads[i].ai_score)
                       /\ Val(leads[i].ai_score) >= Val(resp.min_score)}

\* C6: the ai_* fields of a lead are changed only by the commit of a scoring
\* request for that lead's id; a lead that appears was uploaded and has all
\* three unset; upload, list, get, filters, delete of another lead and the
\* scoring of another id leave the ai_* fields of every lead as they were.
C6_AiFrame ==
    [][\A i \in DOMAIN leads' :
           IF i \in DOMAIN leads
           THEN Ai(leads'[i]) # Ai(leads[i]) =>
                    /\ req.pc = "write" /\ req.lead_id = i
                    /\ resp'.op = "score" /\ resp'.status = 200
           ELSE /\ Ai(leads'[i]) = Unscored
                /\ resp'.op = "upload" /\ resp'.status = 200
      ]_vars

\* C6, its case: leads were uploaded beside a lead scored before, which
\* kept its score.
C6_Witness ==
    /\ resp.op = "upload" /\ resp.status = 200 /\ resp.leads_added > 0
    /\ \E i, j \in DOMAIN leads :
           /\ Ai(leads[i]) # Unscored
           /\ Ai(leads[j]) = Unscored

\* C7: POST /leads/{id}/score answers 404 when no lead has the id and 500
\* when the lead exists and the key is not configured, in both cases with no
\* fetch, no model call and the table unchanged; a request goes on to the
\* fetch only with its lead stored and the key configured; and no other
\* endpoint ever answers with the error of the missing key.
C7_ScoreRejects ==
    [][/\ (req.pc = "idle" /\ req'.pc = "idle" /\ resp'.op = "score") =>
              /\ leads' = leads
              /\ resp'.fetches = 0 /\ resp'.model_calls = 0
              /\ IF resp'.lead_id \notin DOMAIN leads
                 THEN resp'.status = 404
                 ELSE ~api_key /\ resp'.status = 500
       /\ (req.pc = "idle" /\ req'.pc # "idle") =>
              /\ req'.lead_id \in DOMAIN leads
              /\ api_key
              /\ req'.fetches = 0 /\ req'.model_calls = 0
       /\ (resp'.op \notin {"score", "none"}) =>
              /\ resp'.status \in {200, 400, 404, 500}
              /\ resp'.status = 500 =>
                     (resp'.op = "upload" /\ resp'.detail = "Error processing CSV")
      ]_vars

\* C7, its case: with no key configured, a lead was uploaded and its
\* scoring was refused with 500.
C7_Witness ==
    /\ ~api_key
    /\ resp.op = "score" /\ resp.status = 500
    /\ resp.detail = "ANTHROPIC_API_KEY not configured"
    /\ resp.lead_id \in DOMAIN leads

\* C8: clear-all always succeeds, reports the number of rows there were and
\* leaves the table empty; called again with no request in between it
\* succeeds and reports 0.
C8_ClearAllTwice ==
    [][resp'.op = "clear_all" =>
           /\ resp'.status = 200
           /\ resp'.leads_deleted = Cardinality(DOMAIN leads)
           /\ leads' = EmptyTable
           /\ resp.op = "clear_all" => resp'.leads_deleted = 0
      ]_vars

\* C8, its case: clear-all was called right after clear-all.
C8_Witness ==
    /\ prev_clear
    /\ resp.op = "clear_all" /\ resp.status = 200
    /\ resp.leads_deleted = 0

(***************************************************************************)
(* Properties of ParserSpec.                                               *)
(***************************************************************************)
\* the lines of a text that start with the marker m
MarkerLines(lines, m) == {k \in 1..Len(lines) : StartsWith(lines[k], m)}

NoMarkerLine(lines) == \A m \in Markers : MarkerLines(lines, m) = {}

\* the lines joined by single blanks
RECURSIVE JoinLines(_)
JoinLines(lines) ==
    IF lines = <<>> THEN <<>>
    ELSE IF Len(lines) = 1 THEN lines[1]
    ELSE Cat(Cat(lines[1], <<Run(" ", 1)>>), JoinLines(Tail(lines)))

\* C5 as stated: when no line of the response starts with SCORE:,
\* JUSTIFICATION: or NEXT_ACTION:, the parser yields 50, the first 400
\* characters of the raw response and the fixed next action.
C5_DefaultsAsStated ==
    (~IsNone(pout) /\ NoMarkerLine(SplitLines(ptext))) =>
        Val(pout) =
            [score         |-> 50,
             justification |-> Slice(ptext, 400),
             next_action   |-> <<Run("Review lead and determine outreach strategy", 1)>>]

\* C5 amended: when, once the blanks and line breaks around the response are
\* stripped, no line of it starts with SCORE:, JUSTIFICATION: or
\* NEXT_ACTION:, the parser yields 50, the first 400 characters of the raw
\* response with every run of blanks and line breaks collapsed to one blank
\* and none left at either end, and the fixed next action.
C5_Defaults ==
    (~IsNone(pout) /\ NoMarkerLine(SplitLines(Strip(ptext)))) =>
        Val(pout) =
            [score         |-> 50,
             justification |-> Collapse(Slice(ptext, 400)),
             next_action   |-> <<Run("Review lead and determine outreach strategy", 1)>>]

\* C5, its case: a response of more than 400 characters without marker
\* lines was parsed, and collapsing changed its first 400 characters.
C5_Witness ==
    /\ ~IsNone(pout)
    /\ NoMarkerLine(SplitLines(Strip(ptext)))
    /\ StrLen(ptext) > 400
    /\ Val(pout).justification # Slice(ptext, 400)
    /\ Val(pout).score = 50

\* the line without its leading marker
StripPrefix(line) ==
    IF line[1].n = 1 THEN Tail(line)
    ELSE <<Run(line[1].c, line[1].n - 1)>> \o Tail(line)

\* C10 as stated: when the response has a line starting with NEXT_ACTION:,
\* the next action is such a line without its prefix, followed by every
\* line after it to the end, joined by blanks, collapsed and cut to 300
\* characters.
C10_NextActionAsStated ==
    LET lines == SplitLines(ptext)
    IN  (~IsNone(pout) /\ MarkerLines(lines, "NEXT_ACTION:") # {}) =>
            \E k \in MarkerLines(lines, "NEXT_ACTION:") :
                Val(pout).next_action =
                    Slice(Collapse(JoinLines(<<StripPrefix(lines[k])>>
                              \o SubSeq(lines, k + 1, Len(lines)))), 300)

\* C10 amended: when the stripped response has a line starting with
\* NEXT_ACTION:, the next action is the last such line with every
\* NEXT_ACTION: in it removed, followed by every line after it to the end,
\* joined by blanks, collapsed and cut to 300 characters; when that is
\* empty, it is the fixed fallback string.
C10_NextAction ==
    LET lines == SplitLines(Strip(ptext))
        marked == MarkerLines(lines, "NEXT_ACTION:")
    IN  (~IsNone(pout) /\ marked # {}) =>
            LET k    == CHOOSE x \in marked : \A y \in marked : y <= x
                body == Collapse(JoinLines(<<Remove(lines[k], "NEXT_ACTION:")>>
                            \o SubSeq(lines, k + 1, Len(lines))))
            IN  Val(pout).next_action =
                    IF body = <<>>
                    THEN <<Run("Review lead and determine outreach strategy", 1)>>
                    ELSE Slice(body, 300)

\* C10, its case: a NEXT_ACTION: line followed by another line was parsed
\* and the cap of 300 characters cut the result.
C10_Witness ==
    LET lines == SplitLines(Strip(ptext))
        marked == MarkerLines(lines, "NEXT_ACTION:")
    IN  /\ ~IsNone(pout)
        /\ marked # {}
        /\ \E k \in marked : k < Len(lines)
        /\ StrLen(JoinLines(lines)) > 300
        /\ StrLen(Val(pout).next_action) = 300

(***************************************************************************)
(* Properties of EmailSpec.                                                *)
(***************************************************************************)
\* the text between the first "@" of the email and the next one (or the
\* end), lower-cased
EmailDomain(email) ==
    LET at   == CHOOSE i \in 1..Len(email) :
                    email[i] = "@" /\ \A j \in 1..(i - 1) : email[j] # "@"
        rest == SubSeq(email, at + 1, Len(email))
        ends == {i \in 1..Len(rest) : rest[i] = "@"}
        stop == IF ends = {} THEN Len(rest) + 1
                ELSE CHOOSE i \in ends : \A j \in ends : i <= j
    IN  Lower(SubSeq(rest, 1, stop - 1))

\* the website without scheme and "www.", up to its first "/", lower-cased
WebsiteDomain(website) ==
    LET bare == SelectSeq(website,
                          LAMBDA c : c \notin {"http://", "https://", "www."})
        cut  == {i \in 1..Len(bare) : bare[i] = "/"}
        stop == IF cut = {} THEN Len(bare) + 1
                ELSE CHOOSE i \in cut : \A j \in cut : i <= j
    IN  Lower(SubSeq(bare, 1, stop - 1))

\* C9: the email analyzer never raises and classifies (email, website) in
\* this order: empty or "nan" email, "No email provided"; no "@", "Invalid
\* email format"; a generic provider's domain, the generic message; with a
\* website, "matches" exactly when one of the two domains is a substring of
\* the other, else "doesn't match"; without a website, the professional
\* message; every message about a domain names the email's domain.
C9_EmailDecision ==
    ~IsNone(eout) =>
        LET email   == ein[1]
            website == ein[2]
            out     == Val(eout)
        IN  /\ out.raised = FALSE
            /\ IF email = <<>> \/ email = <<"nan">>
               THEN out.value = Msg("No email provided", None)
               ELSE IF \A i \in 1..Len(email) : email[i] # "@"
               THEN out.value = Msg("Invalid email format", None)
               ELSE /\ out.value.domain = Some(EmailDomain(email))
                    /\ out.value.text =
                         IF EmailDomain(email) \in
                                {<<"gmail.com">>, <<"yahoo.com">>, <<"hotmail.com">>,
                                 <<"outlook.com">>, <<"aol.com">>}
                         THEN "Generic email domain - less professional"
                         ELSE IF website # <<>> /\ website # <<"nan">>
                         THEN IF \/ Contains(WebsiteDomain(website), EmailDomain(email))
                                 \/ Contains(EmailDomain(email), WebsiteDomain(website))
                              THEN "Professional email - domain matches website"
                              ELSE "Email domain doesn't match website"
                         ELSE "Professional email domain"

\* C9, its case: an email whose domain needs lower-casing was matched with
\* the domain of a website given with scheme, "www." and path.
C9_Witness ==
    /\ ~IsNone(eout)
    /\ Val(eout).value.text = "Professional email - domain matches website"
    /\ Val(eout).value.domain = Some(<<"acme.com">>)
    /\ ein[1] = <<"user", "@", "ACME.COM">>
    /\ ein[2] = <<"https://", "www.", "acme.com", "/", "acme.com">>

(***************************************************************************)
(* Properties of RequestsSpec.                                             *)
(***************************************************************************)
\* request r runs concurrently with another request for the
\* same lead: another one is being handled, or one has committed to the
\* lead since r read it
Overlapped(r) ==
    \/ \E v \in Requests \ {r} :
           req[v].pc \notin {"idle", "done"} /\ req[v].lead_id = req[r].lead_id
    \/ /\ req[r].lead_id \in DOMAIN leads
       /\ leads[req[r].lead_id] # req[r].lead

\* the step in which request r commits and returns 200
Commits(r) ==
    /\ req[r].pc = "write"
    /\ req'[r].pc = "done"
    /\ resp'.status = 200

\* C11: when a scoring request that ran concurrently with another one for
\* the same lead commits, the lead's stored (ai_score, ai_justification,
\* ai_next_action) is the complete triple that request produced (it is the
\* last to have committed), never a combination with fields of the other
\* request, and the rows of the other leads are as they were.
C11_LastCommitWins ==
    [][\A r \in Requests :
          (Commits(r) /\ Overlapped(r)) =>
              /\ Ai(leads'[req[r].lead_id]) =
                     <<Some(resp'.score), Some(resp'.justification),
                       Some(resp'.next_action)>>
              /\ \A j \in DOMAIN leads \ {req[r].lead_id} :
                     leads'[j] = leads[j]]_vars

=============================================================================
